---- MODULE Spec2Model ----
(***************************************************************************)
(* Model of the state-synchronisation core of the DEparrow bootstrap       *)
(* server (src/deparrow/metaos-layer/bootstrap-server.py): the credit      *)
(* ledger kept in DEparrowBootstrapServer.users / .jobs, the RateLimiter   *)
(* and the WebSocketManager.                                               *)
(*                                                                         *)
(* The server is an aiohttp application: every request handler is a        *)
(* coroutine on one event loop, so a handler runs without interruption     *)
(* between two of its `await` expressions.  Each action below is one such  *)
(* uninterrupted stretch of a handler.                                     *)
(*                                                                         *)
(* Credits are floats in the source.  The model counts them in units of    *)
(* half a credit, so that the 50% refund of cancel_job stays an integer    *)
(* for the even costs the model submits.                                   *)
(***************************************************************************)
EXTENDS Integers, Sequences, FiniteSets, TLC

VARIABLES
    users,          \* self.users: user id -> credit_balance (half-credits)
    jobs,           \* self.jobs: job id -> [user_id, credit_cost]; NoJob when absent
    handler,        \* request-handler task -> [pc, op, args]
    last,           \* the response of the last handler body that ran: [op, outcome]
    concStart,      \* two transfers pending together: the balances and requests then
    initial_sum,    \* sum of the balances at start-up
    total_credited, \* sum of the refund_amount values of the 'cancelled' responses
    total_debited,  \* sum of the credit_deducted values of the 'accepted' responses
    nOps,           \* number of requests received so far
    requests,       \* RateLimiter.requests: key -> list of timestamps
    rl_lock,        \* RateLimiter._lock: the caller holding it, or "free"
    caller,         \* check_rate_limit call -> [pc, key, now, current_count]
    clock,          \* time.time()
    admitted,       \* per key and timestamp, how many checks were ever admitted
    rl_last,        \* the last value check_rate_limit returned, and for which key
    was_denied,     \* per key, whether some check has been denied
    connections,    \* WebSocketManager.connections: the registered client ids
    subscriptions,  \* WebSocketManager.subscriptions: the dict's entries, in insertion order
    agent_connections, \* WebSocketManager.agent_connections: agent id -> set of client ids
    broken,         \* client ids whose socket raises on send_str (peer gone)
    fresh,          \* client ids websocket_handler has not handed out yet
    sessions,       \* client ids whose websocket_handler is running (not yet in its finally)
    bcast,          \* broadcast call -> its position, iterator and bookkeeping
    direct,         \* the send_to_client call under way, or what the last one returned
    agent_send,     \* the send_to_agent call under way, or what the last one returned
    ws_lock,        \* WebSocketManager._lock: the call holding it, or "free"
    nodes,          \* self.nodes: node id -> [status, last_seen]; NoNode when absent
    agents,         \* self.agents: agent id -> [status, last_heartbeat]; NoAgent when absent
    wall,           \* datetime.utcnow()
    reaper,         \* the _cleanup_task task: its position and the sweep under way
    terminated      \* agent ids set offline by agent_terminate and not revived since

ledgerVars == <<users, jobs, handler, last, concStart, initial_sum,
                total_credited, total_debited, nOps>>

rateVars == <<requests, rl_lock, caller, clock, admitted, rl_last, was_denied>>

wsVars == <<connections, subscriptions, agent_connections, broken, fresh, sessions, bcast, direct,
           agent_send, ws_lock>>

reaperVars == <<nodes, agents, wall, reaper, terminated>>

vars == <<ledgerVars, rateVars, wsVars, reaperVars>>

----------------------------------------------------------------------------
(* Bounds of the model *)

\* the sample user's start-up balance (credit_balance=100.0 in the source, scaled down)
MaxInitBalance == 3

\* number of requests the model lets the handlers receive
MaxOps == 3

\* number of requests about one job the model lets the handlers receive
MaxJobOps == 4

(* Identifiers *)
KnownUsers == {"user-1", "user-2"}
UserIds    == KnownUsers \cup {"user-9"}      \* "user-9" is in no cache
JobIds     == {"job-a"}
Handlers   == {"h1", "h2"}

\* credit_cost values a submission may carry (unvalidated request field)
CreditCosts == {-2, 2}

\* the positive costs among them
JobCosts == {c \in CreditCosts : c > 0}

\* amount values a transfer request may carry (unvalidated request field)
Amounts == {-1, 0, 2}

NoJob  == [user_id |-> "none", credit_cost |-> 0]
NoArgs == [user |-> "none", to |-> "none", amount |-> 0, job |-> "none", valid |-> TRUE]
Idle   == [pc |-> "idle", op |-> "none", args |-> NoArgs]
NoOp   == [op |-> "none", outcome |-> "none"]

RECURSIVE SumOver(_, _)
SumOver(f, S) ==
    IF S = {} THEN 0
    ELSE LET x == CHOOSE y \in S : TRUE IN f[x] + SumOver(f, S \ {x})

\* sum(user.credit_balance for user in self.users.values())
TotalCredits(u) == SumOver(u, DOMAIN u)

----------------------------------------------------------------------------
(* RateLimiter.check_rate_limit *)

\* max_requests of a call (tool.rate_limit in execute_tool), the same for
\* every call on a key
MaxRequests == 3

\* window_seconds of a call, in clock ticks
WindowSeconds == 2

\* last value of the clock the model follows
MaxTime == 4

Keys    == {"agent-1:job_submit"}
Callers == {"c1", "c2"}
Times   == 0..MaxTime

NoCall == [pc |-> "idle", key |-> "none", now |-> 0, current_count |-> 0]

\* `ts > window_start`, the filter of the list comprehension
KeepTimestamp_Inclusive(ts, window_start) == ts >= window_start
KeepTimestamp(ts, window_start) == ts > window_start

\* a check that keeps every recorded request
CleanOld_Keep(timestamps, window_start) == timestamps

\* `[ts for ts in self.requests[key] if ts > window_start]`
CleanOld(timestamps, window_start) ==
    SelectSeq(timestamps, LAMBDA ts : KeepTimestamp(ts, window_start))

\* `async with self._lock`: the lock can be taken when nobody holds it
LockFree_Always(c) == TRUE
LockFree(c) == rl_lock = "free"

\* lines 397-402: the list after the decision, the request recorded only when
\* current_count < max_requests
RecordRequest_Always(timestamps, now, current_count) == Append(timestamps, now)
RecordRequest(timestamps, now, current_count) ==
    IF current_count >= MaxRequests THEN timestamps ELSE Append(timestamps, now)

\* the returned tuple (is_allowed, remaining_requests)
RateResult(current_count) ==
    IF current_count >= MaxRequests
    THEN [allowed |-> FALSE, remaining |-> 0]
    ELSE [allowed |-> TRUE, remaining |-> MaxRequests - current_count - 1]

\* execute_tool awaits rate_limiter.check_rate_limit(rate_key, ...)
CallCheck(c) ==
    /\ caller[c].pc = "idle"
    /\ \E k \in Keys : caller' = [caller EXCEPT ![c] = [NoCall EXCEPT !.pc = "call", !.key = k]]
    /\ UNCHANGED <<requests, rl_lock, clock, admitted, rl_last, was_denied>>
    /\ UNCHANGED <<ledgerVars, wsVars, reaperVars>>

\* `async with self._lock:` entered
AcquireLock(c) ==
    /\ caller[c].pc = "call"
    /\ LockFree(c)
    /\ rl_lock' = c
    /\ caller' = [caller EXCEPT ![c].pc = "locked"]
    /\ UNCHANGED <<requests, clock, admitted, rl_last, was_denied>>
    /\ UNCHANGED <<ledgerVars, wsVars, reaperVars>>

\* lines 386-395: read the clock, drop the old requests, count the rest
CleanAndCount(c) ==
    /\ caller[c].pc = "locked"
    /\ LET key == caller[c].key
           now == clock
           window_start == now - WindowSeconds
           kept == CleanOld(requests[key], window_start)
       IN  /\ requests' = [requests EXCEPT ![key] = kept]
           /\ caller' = [caller EXCEPT ![c] =
                           [pc |-> "counted", key |-> key, now |-> now,
                            current_count |-> Len(kept)]]
    /\ UNCHANGED <<rl_lock, clock, admitted, rl_last, was_denied>>
    /\ UNCHANGED <<ledgerVars, wsVars, reaperVars>>

\* lines 397-402: decide, record the request when admitted, return (and
\* leave the `async with` block)
DecideAndReturn(c) ==
    /\ caller[c].pc = "counted"
    /\ LET key == caller[c].key
           now == caller[c].now
           res == RateResult(caller[c].current_count)
       IN  /\ requests' = [requests EXCEPT ![key] =
                              RecordRequest(@, now, caller[c].current_count)]
           /\ rl_last' = [key |-> key, allowed |-> res.allowed, remaining |-> res.remaining]
           /\ admitted' = IF res.allowed
                          THEN [admitted EXCEPT ![key][now] = @ + 1]
                          ELSE admitted
           /\ was_denied' = IF res.allowed THEN was_denied
                            ELSE [was_denied EXCEPT ![key] = TRUE]
    /\ rl_lock' = IF rl_lock = c THEN "free" ELSE rl_lock
    /\ caller' = [caller EXCEPT ![c] = NoCall]
    /\ UNCHANGED clock
    /\ UNCHANGED <<ledgerVars, wsVars, reaperVars>>

\* time passes
Tick ==
    /\ clock < MaxTime
    /\ clock' = clock + 1
    /\ UNCHANGED <<requests, rl_lock, caller, admitted, rl_last, was_denied>>
    /\ UNCHANGED <<ledgerVars, wsVars, reaperVars>>

\* RateLimiter.__init__ : no request recorded, lock free
RateStart ==
    /\ requests = [k \in Keys |-> <<>>]
    /\ rl_lock = "free"
    /\ caller = [c \in Callers |-> NoCall]
    /\ clock = 0
    /\ admitted = [k \in Keys |-> [t \in Times |-> 0]]
    /\ rl_last = [key |-> "none", allowed |-> FALSE, remaining |-> 0]
    /\ was_denied = [k \in Keys |-> FALSE]

----------------------------------------------------------------------------
(* Credit ledger: DEparrowBootstrapServer.submit_job / cancel_job /        *)
(* transfer_credits over self.users and self.jobs                          *)

\* the comparison with its operands swapped
InsufficientCredits_Swapped(balance, required) == required < balance

\* `if user.credit_balance < credit_cost` (submit_job) and
\* `if from_user.credit_balance < amount` (transfer_credits)
InsufficientCredits(balance, required) == balance < required

\* `refund_amount = job.credit_cost * 0.5`
RefundAmount(credit_cost) == credit_cost \div 2

\* `if not to_user_id or not amount or amount <= 0` ; to_user_id is always given here
InvalidTransfer(amount) == amount = 0 \/ amount <= 0

\* `from_user.credit_balance -= amount ; to_user.credit_balance += amount`
\* (two assignments in sequence; with from = to they act on the same object)
PerformTransfer(u, from, to, amount) ==
    LET debited == [u EXCEPT ![from] = @ - amount]
    IN  [debited EXCEPT ![to] = @ + amount]

\* deducting the default submission cost (1.0 credit) whatever the request asks
DeductCredits_Flat(u, user_id, credit_cost) == [u EXCEPT ![user_id] = @ - 2]

\* `user.credit_balance -= credit_cost`
DeductCredits(u, user_id, credit_cost) == [u EXCEPT ![user_id] = @ - credit_cost]

\* `user.credit_balance += refund_amount`
RefundCredits(u, user_id, refund_amount) == [u EXCEPT ![user_id] = @ + refund_amount]

Pending(h) == handler[h].pc = "json"
Quiescent  == \A h \in Handlers : ~Pending(h)

\* A request reaches the server and its handler task starts; the task is
\* suspended until the request body has been read (`await request.json()`).
\* Handler tasks are anonymous: a request is given to "h1" when that task is
\* free and to "h2" otherwise, which loses no interleaving of two tasks.
ReceiveUpTo(h, op, args, budget) ==
    /\ handler[h].pc = "idle"
    /\ h = "h2" => Pending("h1")
    /\ nOps < budget
    /\ handler' = [handler EXCEPT ![h] = [pc |-> "json", op |-> op, args |-> args]]
    /\ nOps' = nOps + 1
    /\ concStart' =
         IF \E g \in Handlers \ {h} :
                Pending(g) /\ handler[g].op = "transfer_credits" /\ op = "transfer_credits"
         THEN LET g == CHOOSE g \in Handlers \ {h} : Pending(g)
              IN  [before |-> users, first |-> handler[g].args, second |-> args]
         ELSE <<>>
    /\ UNCHANGED <<users, jobs, last, initial_sum, total_credited, total_debited>>
    /\ UNCHANGED <<rateVars, wsVars, reaperVars>>

Receive(h, op, args) == ReceiveUpTo(h, op, args, MaxOps)

ReceiveSubmit(h) ==
    \E u \in UserIds, c \in CreditCosts, j \in JobIds, v \in BOOLEAN :
        Receive(h, "submit_job", [NoArgs EXCEPT !.user = u, !.amount = c, !.job = j, !.valid = v])

ReceiveCancel(h) ==
    \E u \in UserIds, j \in JobIds :
        Receive(h, "cancel_job", [NoArgs EXCEPT !.user = u, !.job = j])

\* a request about one job by a known user: a submission with a positive
\* cost, or a cancellation
JobRequest(h) ==
    \E u \in KnownUsers, j \in JobIds :
        \/ \E c \in JobCosts, v \in BOOLEAN :
              ReceiveUpTo(h, "submit_job",
                          [NoArgs EXCEPT !.user = u, !.amount = c, !.job = j, !.valid = v],
                          MaxJobOps)
        \/ ReceiveUpTo(h, "cancel_job", [NoArgs EXCEPT !.user = u, !.job = j], MaxJobOps)

ReceiveToolTransfer(h) ==
    \E u \in UserIds, t \in UserIds, a \in Amounts :
        Receive(h, "tool_credit_transfer", [NoArgs EXCEPT !.user = u, !.to = t, !.amount = a])

ReceiveTransfer(h) ==
    \E u \in UserIds, t \in UserIds, a \in Amounts :
        Receive(h, "transfer_credits", [NoArgs EXCEPT !.user = u, !.to = t, !.amount = a])

\* The handler body has run to its `return web.json_response(...)`;
\* `reported` is the amount the response states (credit_deducted, refund_amount, amount).
Respond(h, outcome, reported) ==
    /\ last' = [op |-> handler[h].op, outcome |-> outcome]
    /\ handler' = [handler EXCEPT ![h] = Idle]
    /\ UNCHANGED <<concStart, initial_sum, nOps>>
    /\ UNCHANGED <<rateVars, wsVars, reaperVars>>

\* submit_job, from the line after `await request.json()` to its return.
\* args.valid is whether JobSubmission(**fields) validates: the model is
\* built after the deduction, and a request without a string 'orchestrator'
\* (or with a non-dict 'spec') raises ValidationError, caught by the
\* handler's `except Exception`.
submit_job(h) ==
    /\ Pending(h) /\ handler[h].op = "submit_job"
    /\ LET a == handler[h].args
           user_id == a.user
           credit_cost == a.amount
       IN  IF user_id \notin DOMAIN users
           THEN /\ Respond(h, "user_not_found", 0)
                /\ UNCHANGED <<users, jobs, total_credited, total_debited>>
           ELSE IF InsufficientCredits(users[user_id], credit_cost)
           THEN /\ Respond(h, "insufficient_credits", 0)
                /\ UNCHANGED <<users, jobs, total_credited, total_debited>>
           ELSE /\ users' = DeductCredits(users, user_id, credit_cost)
                /\ IF a.valid
                   THEN /\ jobs' = [jobs EXCEPT ![a.job] =
                                      [user_id |-> user_id, credit_cost |-> credit_cost]]
                        /\ Respond(h, "accepted", credit_cost)
                        /\ total_debited' = total_debited + credit_cost
                   ELSE /\ Respond(h, "submission_failed", 0)
                        /\ UNCHANGED <<jobs, total_debited>>
                /\ UNCHANGED total_credited

\* cancel_job (no await: the whole handler is one step)
cancel_job(h) ==
    /\ Pending(h) /\ handler[h].op = "cancel_job"
    /\ LET a == handler[h].args
           job == jobs[a.job]
           refund_amount == RefundAmount(job.credit_cost)
       IN  IF job = NoJob
           THEN /\ Respond(h, "job_not_found", 0)
                /\ UNCHANGED <<users, jobs, total_credited, total_debited>>
           ELSE IF job.user_id # a.user
           THEN /\ Respond(h, "not_authorized", 0)
                /\ UNCHANGED <<users, jobs, total_credited, total_debited>>
           ELSE /\ users' = IF a.user \in DOMAIN users
                            THEN RefundCredits(users, a.user, refund_amount)
                            ELSE users
                /\ Respond(h, "cancelled", refund_amount)
                /\ total_credited' = total_credited + refund_amount
                /\ UNCHANGED <<jobs, total_debited>>

\* transfer_credits as it would behave if the balances were read when the
\* request arrived and written back later (a lost update)
transfer_credits_stale(h) ==
    /\ Pending(h) /\ handler[h].op = "transfer_credits"
    /\ LET a == handler[h].args
           seen == IF concStart = <<>> THEN users ELSE concStart.before
       IN  IF InvalidTransfer(a.amount)
           THEN /\ Respond(h, "invalid_transfer", 0)
                /\ UNCHANGED <<users, jobs, total_credited, total_debited>>
           ELSE IF a.user \notin DOMAIN users \/ a.to \notin DOMAIN users
           THEN /\ Respond(h, "user_not_found", 0)
                /\ UNCHANGED <<users, jobs, total_credited, total_debited>>
           ELSE IF seen[a.user] < a.amount
           THEN /\ Respond(h, "insufficient_credits", 0)
                /\ UNCHANGED <<users, jobs, total_credited, total_debited>>
           ELSE /\ users' = [users EXCEPT ![a.user] = seen[a.user] - a.amount,
                                          ![a.to] = seen[a.to] + a.amount]
                /\ Respond(h, "transferred", a.amount)
                /\ UNCHANGED <<jobs, total_credited, total_debited>>

\* transfer_credits, from the line after `await request.json()` to its return
transfer_credits(h) ==
    /\ Pending(h) /\ handler[h].op = "transfer_credits"
    /\ LET a == handler[h].args
       IN  IF InvalidTransfer(a.amount)
           THEN /\ Respond(h, "invalid_transfer", 0)
                /\ UNCHANGED <<users, jobs, total_credited, total_debited>>
           ELSE IF a.user \notin DOMAIN users \/ a.to \notin DOMAIN users
           THEN /\ Respond(h, "user_not_found", 0)
                /\ UNCHANGED <<users, jobs, total_credited, total_debited>>
           ELSE IF InsufficientCredits(users[a.user], a.amount)
           THEN /\ Respond(h, "insufficient_credits", 0)
                /\ UNCHANGED <<users, jobs, total_credited, total_debited>>
           ELSE /\ users' = PerformTransfer(users, a.user, a.to, a.amount)
                /\ Respond(h, "transferred", a.amount)
                /\ UNCHANGED <<jobs, total_credited, total_debited>>

\* _tool_credit_transfer, reached from execute_tool for tool_name
\* "credit_transfer" (args.user is the agent_id, args.to the 'to' parameter).
\* The rate-limit check and the tool_executions broadcast of execute_tool
\* touch no ledger state and are left to the other components' models.
tool_credit_transfer(h) ==
    /\ Pending(h) /\ handler[h].op = "tool_credit_transfer"
    /\ LET a == handler[h].args
       IN  IF a.amount <= 0
           THEN Respond(h, "error", 0)
           ELSE Respond(h, "success", a.amount)
    /\ UNCHANGED <<users, jobs, total_credited, total_debited>>

\* get_credit_balance (no await: the whole handler is one step): 404 for a
\* user id that is not in self.users
get_credit_balance(u) ==
    /\ last' = IF u \notin DOMAIN users
               THEN [op |-> "get_credit_balance", outcome |-> "user_not_found"]
               ELSE [op |-> "get_credit_balance", outcome |-> "ok", balance |-> users[u]]
    /\ UNCHANGED <<users, jobs, handler, concStart, initial_sum, total_credited,
                   total_debited, nOps>>
    /\ UNCHANGED <<rateVars, wsVars, reaperVars>>

\* _tool_credit_balance(agent_id), reached from execute_tool for tool_name
\* "credit_balance", for an agent_id that is no key of self.agents: the
\* user's balance, or 0.0 for an id that is in no cache
tool_credit_balance(u) ==
    /\ last' = [op |-> "tool_credit_balance", outcome |-> "success",
                balance |-> IF u \in DOMAIN users THEN users[u] ELSE 0]
    /\ UNCHANGED <<users, jobs, handler, concStart, initial_sum, total_credited,
                   total_debited, nOps>>
    /\ UNCHANGED <<rateVars, wsVars, reaperVars>>

\* self.users after _initialize_sample_data, generalised from the one sample
\* user (user-1, with a positive balance) to a cache that also holds a user
\* with balance 0
LedgerStart ==
    /\ users = [u \in KnownUsers |-> IF u = "user-1" THEN MaxInitBalance ELSE 0]
    /\ jobs = [j \in JobIds |-> NoJob]
    /\ handler = [h \in Handlers |-> Idle]
    /\ last = NoOp
    /\ concStart = <<>>
    /\ initial_sum = TotalCredits(users)
    /\ total_credited = 0
    /\ total_debited = 0
    /\ nOps = 0

----------------------------------------------------------------------------
(* WebSocketManager *)

Clients      == {"c1", "c2"}
Channels     == {"jobs", "nodes"}
Agents       == {"agent-demo-1"}
Broadcasters == {"b1"}

\* A Python dict keeps its items in an entries array in insertion order: an
\* insertion of a new key appends, a deletion leaves a hole, and an iterator
\* is a position in that array that steps over the holes.  The model keeps
\* the live entries only, in their order, and an iterator's position as the
\* number of live entries behind it; a deletion behind an iterator moves that
\* iterator back by one.  The two pictures yield the same items to every
\* iterator.

\* len(d)
Used(entries) == Len(entries)

\* position of key c among the entries, 0 when c is no key
IndexOf(entries, c) ==
    IF \E i \in 1..Len(entries) : entries[i].cid = c
    THEN CHOOSE i \in 1..Len(entries) : entries[i].cid = c
    ELSE 0

\* self.subscriptions[c] without the defaultdict's insertion: the channels of c
ChannelsOf(entries, c) ==
    IF IndexOf(entries, c) = 0 THEN {} ELSE entries[IndexOf(entries, c)].chans

\* `self.subscriptions[client_id]` on the defaultdict(set): a missing key is
\* inserted with an empty set
GetOrInsert(entries, c) ==
    IF IndexOf(entries, c) = 0 THEN Append(entries, [cid |-> c, chans |-> {}]) ELSE entries

\* a subscribe that toggles the membership, which the source does not do
SubscribeEntries_Toggle(entries, c, ch) ==
    LET e == GetOrInsert(entries, c)
    IN  [e EXCEPT ![IndexOf(e, c)].chans = IF ch \in @ THEN @ \ {ch} ELSE @ \cup {ch}]

\* `self.subscriptions[client_id].add(channel)`
SubscribeEntries(entries, c, ch) ==
    LET e == GetOrInsert(entries, c)
    IN  [e EXCEPT ![IndexOf(e, c)].chans = @ \cup {ch}]

\* `self.subscriptions[client_id].discard(channel)`
UnsubscribeEntries(entries, c, ch) ==
    LET e == GetOrInsert(entries, c)
    IN  [e EXCEPT ![IndexOf(e, c)].chans = @ \ {ch}]

\* `if client_id in self.subscriptions: del self.subscriptions[client_id]`
DeleteEntry(entries, c) ==
    LET i == IndexOf(entries, c)
    IN  IF i = 0 THEN entries
        ELSE SubSeq(entries, 1, i - 1) \o SubSeq(entries, i + 1, Len(entries))

\* the position of an iterator after the deletion of key c
PosAfterDelete(entries, c, pos) ==
    IF IndexOf(entries, c) # 0 /\ IndexOf(entries, c) <= pos THEN pos - 1 ELSE pos

\* a clean-up that leaves the agent routes alone, which the source does not do
DiscardFromAgents_Skip(routes, c) == routes

\* `for agent_id in list(self.agent_connections.keys()):
\*      self.agent_connections[agent_id].discard(client_id)`
DiscardFromAgents(routes, c) == [a \in DOMAIN routes |-> routes[a] \ {c}]

\* the registry as one value (with the positions of the iterators that are
\* under way), for the steps that edit it more than once
Registry == [conns |-> connections, subs |-> subscriptions, agents |-> agent_connections,
             pos |-> [b \in Broadcasters |-> bcast[b].pos]]

\* a disconnect that returns at once for an id that is not registered, which
\* the source does not do
DisconnectIn_Registered(reg, c) ==
    IF c \notin reg.conns THEN reg
    ELSE [conns  |-> reg.conns \ {c},
          subs   |-> DeleteEntry(reg.subs, c),
          agents |-> DiscardFromAgents(reg.agents, c),
          pos    |-> [b \in Broadcasters |-> PosAfterDelete(reg.subs, c, reg.pos[b])]]

\* the body of disconnect(client_id), under the lock
DisconnectIn(reg, c) ==
    [conns  |-> reg.conns \ {c},
     subs   |-> DeleteEntry(reg.subs, c),
     agents |-> DiscardFromAgents(reg.agents, c),
     pos    |-> [b \in Broadcasters |-> PosAfterDelete(reg.subs, c, reg.pos[b])]]

RECURSIVE DisconnectAll(_, _)
\* `for client_id in disconnected: await self.disconnect(client_id)`; the lock
\* is free and disconnect awaits nothing else, so the loop runs in one stretch
DisconnectAll(reg, disconnected) ==
    IF disconnected = <<>> THEN reg
    ELSE DisconnectAll(DisconnectIn(reg, Head(disconnected)), Tail(disconnected))

\* the clients broadcast(channel) would send to if it ran over the registry
\* as it stands: `channel in channels and client_id in self.connections`
Subscribers(entries, conns, ch) == {c \in conns : ch \in ChannelsOf(entries, c)}

NoBroadcast == [pc |-> "idle", channel |-> "none", pos |-> 0, used |-> 0, len |-> 0,
                cur |-> "none", disconnected |-> <<>>,
                snapshot |-> {}, attempted |-> <<>>, overtaken |-> {}, gone |-> {}]

\* no send_to_client call under way
NoSend == [pc |-> "idle", cid |-> "none", result |-> "none"]

RECURSIVE IterNext(_, _, _, _, _, _)
\* The `for client_id, channels in self.subscriptions.items()` loop from its
\* next() call up to the next send_str or the end of the loop.  The items
\* iterator (dictiter_iternextitem) raises RuntimeError when len(d) differs
\* from the length at its creation, stops at the end of the entries, and
\* raises when it finds an item after having returned as many as the dict
\* held at its creation.
IterNext(entries, conns, ch, pos, used, len) ==
    IF used # Used(entries)
    THEN [kind |-> "error", pos |-> pos, len |-> len, cid |-> "none"]
    ELSE IF pos >= Len(entries)
    THEN [kind |-> "stop", pos |-> pos, len |-> len, cid |-> "none"]
    ELSE IF len = 0
    THEN [kind |-> "error", pos |-> pos, len |-> len, cid |-> "none"]
    ELSE IF ch \in entries[pos + 1].chans /\ entries[pos + 1].cid \in conns
    THEN [kind |-> "send", pos |-> pos + 1, len |-> len - 1, cid |-> entries[pos + 1].cid]
    ELSE IterNext(entries, conns, ch, pos + 1, used, len - 1)

\* `async with self._lock:` can be entered.  No body under the lock has an
\* await in it, so the lock taken by a step is released within that step
RegistryLockFree == ws_lock = "free"

\* connect(client_id, ws); websocket_handler calls it with a new uuid4
connect(c) ==
    /\ RegistryLockFree
    /\ c \in fresh
    /\ fresh' = fresh \ {c}
    /\ sessions' = sessions \cup {c}
    /\ connections' = connections \cup {c}
    /\ UNCHANGED <<subscriptions, agent_connections, broken, bcast, direct>>
    /\ UNCHANGED <<agent_send, ws_lock, ledgerVars, rateVars, reaperVars>>

\* disconnect(client_id), called by the finally of the session of client_id
disconnect(c) ==
    /\ RegistryLockFree
    /\ c \in sessions
    /\ sessions' = sessions \ {c}
    /\ LET reg == DisconnectIn(Registry, c)
       IN  /\ connections' = reg.conns
           /\ subscriptions' = reg.subs
           /\ agent_connections' = reg.agents
           /\ bcast' = [b \in Broadcasters |-> [bcast[b] EXCEPT !.pos = reg.pos[b]]]
    /\ UNCHANGED <<broken, fresh, direct>>
    /\ UNCHANGED <<agent_send, ws_lock, ledgerVars, rateVars, reaperVars>>

\* a subscribe that replays the finished broadcasts of the channel to the new
\* subscriber, which the source does not do
subscribe_replay(c, ch) ==
    /\ RegistryLockFree
    /\ c \in sessions
    /\ subscriptions' = SubscribeEntries(subscriptions, c, ch)
    /\ bcast' = [b \in Broadcasters |->
                   IF bcast[b].pc \in {"done", "raised"} /\ bcast[b].channel = ch
                   THEN [bcast[b] EXCEPT !.attempted = Append(@, c)]
                   ELSE bcast[b]]
    /\ UNCHANGED <<connections, agent_connections, broken, fresh, sessions, direct>>
    /\ UNCHANGED <<agent_send, ws_lock, ledgerVars, rateVars, reaperVars>>

\* subscribe(client_id, channel)
subscribe(c, ch) ==
    /\ RegistryLockFree
    /\ c \in sessions
    /\ subscriptions' = SubscribeEntries(subscriptions, c, ch)
    /\ UNCHANGED <<connections, agent_connections, broken, fresh, sessions, bcast, direct>>
    /\ UNCHANGED <<agent_send, ws_lock, ledgerVars, rateVars, reaperVars>>

\* subscribe(client_id, channel) called on the manager with an id that has not
\* connected (no caller in the server does; the method accepts it)
subscribe_unconnected(c, ch) ==
    /\ RegistryLockFree
    /\ c \in fresh
    /\ subscriptions' = SubscribeEntries(subscriptions, c, ch)
    /\ UNCHANGED <<connections, agent_connections, broken, fresh, sessions, bcast, direct>>
    /\ UNCHANGED <<agent_send, ws_lock, ledgerVars, rateVars, reaperVars>>

\* unsubscribe(client_id, channel)
unsubscribe(c, ch) ==
    /\ RegistryLockFree
    /\ c \in sessions
    /\ subscriptions' = UnsubscribeEntries(subscriptions, c, ch)
    /\ UNCHANGED <<connections, agent_connections, broken, fresh, sessions, bcast, direct>>
    /\ UNCHANGED <<agent_send, ws_lock, ledgerVars, rateVars, reaperVars>>

\* register_agent_ws(agent_id, client_id)
register_agent_ws(a, c) ==
    /\ RegistryLockFree
    /\ c \in sessions
    /\ c \in connections
    /\ agent_connections' =
         IF a \in DOMAIN agent_connections
         THEN [agent_connections EXCEPT ![a] = @ \cup {c}]
         ELSE agent_connections @@ (a :> {c})
    /\ UNCHANGED <<connections, subscriptions, broken, fresh, sessions, bcast, direct>>
    /\ UNCHANGED <<agent_send, ws_lock, ledgerVars, rateVars, reaperVars>>

\* the peer of a connection goes away: every later send_str on its socket raises
PeerGone(c) ==
    /\ c \in connections /\ c \notin broken
    /\ broken' = broken \cup {c}
    /\ UNCHANGED <<connections, subscriptions, agent_connections, fresh, sessions, bcast, direct>>
    /\ UNCHANGED <<agent_send, ws_lock, ledgerVars, rateVars, reaperVars>>

\* a broadcast call that is over: its loop variables are gone
Finished(rec, pc) ==
    [rec EXCEPT !.pc = pc, !.cur = "none", !.pos = 0, !.used = 0, !.len = 0,
                !.disconnected = <<>>, !.overtaken = {}]

\* What broadcast does after its loop has stopped at `it`: suspended in the
\* next send_str, or (loop over) the clean-up of the disconnected clients and
\* the return, or the RuntimeError of the iterator leaving the coroutine.
Continue(b, rec, it) ==
    IF it.kind = "send"
    THEN /\ bcast' = [bcast EXCEPT ![b] =
                        [rec EXCEPT !.pc = "sending", !.pos = it.pos, !.len = it.len,
                                    !.cur = it.cid,
                                    !.attempted = Append(@, it.cid)]]
         /\ UNCHANGED <<connections, subscriptions, agent_connections>>
    ELSE IF it.kind = "stop"
    THEN LET reg == DisconnectAll(Registry, rec.disconnected)
         IN  /\ rec.disconnected # <<>> => RegistryLockFree
             /\ bcast' = [x \in Broadcasters |->
                            IF x = b THEN Finished(rec, "done")
                            ELSE [bcast[x] EXCEPT !.pos = reg.pos[x]]]
             /\ connections' = reg.conns
             /\ subscriptions' = reg.subs
             /\ agent_connections' = reg.agents
    ELSE /\ bcast' = [bcast EXCEPT ![b] = Finished(rec, "raised")]
         /\ UNCHANGED <<connections, subscriptions, agent_connections>>

\* the connections that the previous broadcast `prev` of channel ch sent to
\* and that have been disconnected since
GoneSince(prev, ch) ==
    IF prev.channel = ch
    THEN {prev.attempted[i] : i \in 1..Len(prev.attempted)} \ connections
    ELSE {}

\* broadcast(channel, message) is called: it runs up to its first send_str
\* (or to its end when nobody is to be sent to)
broadcast_call(b, ch) ==
    /\ bcast[b].pc \in {"idle", "done", "raised"}
    /\ LET used == Used(subscriptions)
           rec  == [NoBroadcast EXCEPT !.channel = ch, !.used = used, !.len = used,
                                       !.snapshot = Subscribers(subscriptions, connections, ch),
                                       !.gone = GoneSince(bcast[b], ch)]
       IN  Continue(b, rec, IterNext(subscriptions, connections, ch, 0, used, used))
    /\ UNCHANGED <<broken, fresh, sessions, direct>>
    /\ UNCHANGED <<agent_send, ws_lock, ledgerVars, rateVars, reaperVars>>

\* `await self.connections[client_id].send_str(message_json)` comes back,
\* by returning or by raising, and broadcast runs on to its next send_str or
\* to its end
broadcast_resume(b) ==
    /\ bcast[b].pc = "sending"
    /\ LET rec == IF bcast[b].cur \in broken
                  THEN [bcast[b] EXCEPT !.disconnected = Append(@, bcast[b].cur)]
                  ELSE bcast[b]
       IN  Continue(b, rec, IterNext(subscriptions, connections, rec.channel,
                                     rec.pos, rec.used, rec.len))
    /\ UNCHANGED <<broken, fresh, sessions, direct>>
    /\ UNCHANGED <<agent_send, ws_lock, ledgerVars, rateVars, reaperVars>>

\* a send_to_client that takes the registry lock before it sends, which the
\* source does not do
send_to_client_call_locked(c) ==
    /\ direct.pc = "idle"
    /\ c \in sessions
    /\ RegistryLockFree
    /\ IF c \in connections
       THEN /\ direct' = [pc |-> "sending", cid |-> c, result |-> "none"]
            /\ ws_lock' = "send_to_client"
       ELSE /\ direct' = [NoSend EXCEPT !.result = "false"]
            /\ UNCHANGED ws_lock
    /\ UNCHANGED <<connections, subscriptions, agent_connections, broken, fresh, sessions,
                   bcast>>
    /\ UNCHANGED <<agent_send, ledgerVars, rateVars, reaperVars>>

\* send_to_client(client_id, message) is called, by the session of client_id
\* (_handle_ws_message): an unregistered id returns False at once; else the
\* message is handed to the socket (send_str is called) and the call is
\* suspended in it.  A broadcast that is under way and has not yet sent to
\* client_id notes that this later call has sent to it first.
send_to_client_call(c) ==
    /\ direct.pc = "idle"
    /\ c \in sessions
    /\ IF c \in connections
       THEN /\ direct' = [pc |-> "sending", cid |-> c, result |-> "none"]
            /\ bcast' = [b \in Broadcasters |->
                           IF /\ bcast[b].pc = "sending"
                              /\ \A i \in 1..Len(bcast[b].attempted) : bcast[b].attempted[i] # c
                           THEN [bcast[b] EXCEPT !.overtaken = @ \cup {c}]
                           ELSE bcast[b]]
       ELSE /\ direct' = [NoSend EXCEPT !.result = "false"]
            /\ UNCHANGED bcast
    /\ UNCHANGED <<connections, subscriptions, agent_connections, broken, fresh, sessions>>
    /\ UNCHANGED <<agent_send, ws_lock, ledgerVars, rateVars, reaperVars>>

\* a send_to_client that reports the failed send and leaves the connection
\* registered, which the source does not do
send_to_client_resume_keep ==
    /\ direct.pc = "sending"
    /\ direct' = [NoSend EXCEPT !.result = IF direct.cid \in broken THEN "false" ELSE "true"]
    /\ UNCHANGED <<connections, subscriptions, agent_connections, bcast>>
    /\ UNCHANGED <<broken, fresh, sessions>>
    /\ UNCHANGED <<agent_send, ws_lock, ledgerVars, rateVars, reaperVars>>

\* the send_str of send_to_client comes back: True when it returned,
\* disconnect(client_id) and False when it raised
send_to_client_resume ==
    /\ direct.pc = "sending"
    /\ IF direct.cid \in broken
       THEN LET reg == DisconnectIn(Registry, direct.cid)
            IN  /\ RegistryLockFree
                /\ connections' = reg.conns
                /\ subscriptions' = reg.subs
                /\ agent_connections' = reg.agents
                /\ bcast' = [b \in Broadcasters |-> [bcast[b] EXCEPT !.pos = reg.pos[b]]]
                /\ direct' = [NoSend EXCEPT !.result = "false"]
       ELSE /\ direct' = [NoSend EXCEPT !.result = "true"]
            /\ UNCHANGED <<connections, subscriptions, agent_connections, bcast>>
    /\ UNCHANGED <<broken, fresh, sessions>>
    /\ UNCHANGED <<agent_send, ws_lock, ledgerVars, rateVars, reaperVars>>

\* no send_to_agent call under way
NoAgentSend == [pc |-> "idle", agent |-> "none", todo |-> {}, cur |-> "none",
                routed |-> {}, result |-> "none"]

\* The loop `for client_id in list(self.agent_connections[agent_id])` of the
\* call `rec`, from the head of an iteration to its next send_str or to the
\* `return True`.  The list is a copy of a set, in an order the model leaves
\* open: the next send goes to any remaining id that is still registered, and
\* the ids that are no longer registered are passed over.
AgentContinue(rec) ==
    LET live == rec.todo \cap connections
    IN  IF live = {}
        THEN agent_send' = [rec EXCEPT !.pc = "idle", !.todo = {}, !.cur = "none",
                                       !.result = "true"]
        ELSE \E c \in live :
                agent_send' = [rec EXCEPT !.pc = "sending", !.todo = live \ {c}, !.cur = c]

\* send_to_agent(agent_id, message) is called: False at once when the agent has
\* no key in self.agent_connections, else the loop up to its first send_str
send_to_agent_call(a) ==
    /\ agent_send.pc = "idle"
    /\ IF a \notin DOMAIN agent_connections
       THEN agent_send' = [NoAgentSend EXCEPT !.agent = a, !.result = "false"]
       ELSE AgentContinue([NoAgentSend EXCEPT !.agent = a,
                                              !.todo = agent_connections[a],
                                              !.routed = agent_connections[a]])
    /\ UNCHANGED <<connections, subscriptions, agent_connections, broken, fresh, sessions,
                   bcast, direct>>
    /\ UNCHANGED <<ws_lock, ledgerVars, rateVars, reaperVars>>

\* the send_str of send_to_agent comes back, by returning or by raising (the
\* except clause only logs), and the loop runs on
send_to_agent_resume ==
    /\ agent_send.pc = "sending"
    /\ AgentContinue(agent_send)
    /\ UNCHANGED <<connections, subscriptions, agent_connections, broken, fresh, sessions,
                   bcast, direct>>
    /\ UNCHANGED <<ws_lock, ledgerVars, rateVars, reaperVars>>

\* WebSocketManager.__init__
WsStart ==
    /\ connections = {}
    /\ subscriptions = <<>>
    /\ agent_connections = <<>>
    /\ broken = {}
    /\ fresh = Clients
    /\ sessions = {}
    /\ bcast = [b \in Broadcasters |-> NoBroadcast]
    /\ direct = NoSend
    /\ agent_send = NoAgentSend
    /\ ws_lock = "free"

----------------------------------------------------------------------------
(* Liveness records and DEparrowBootstrapServer._cleanup_task (the reaper) *)

\* Config.NODE_REGISTRATION_TTL (300 seconds in the source), in clock units of the model
NodeTTL == 1

\* the agents' timeout, timedelta(seconds=600) in _cleanup_task, in clock units of the model
AgentTTL == 2

\* the last instant of the clock the model follows
MaxWall == 4

NodeIds  == {"node-1"}
AgentIds == {"agent-demo-1", "agent-2"}

\* the order of self.agents, a dict: the sample agent, then the registered one
AgentOrder == <<"agent-demo-1", "agent-2">>

NoNode  == [status |-> "absent", last_seen |-> 0]
NoAgent == [status |-> "absent", last_heartbeat |-> 0]

NoSweep == [pc |-> "sleeping", now |-> 0, cur |-> "none", todo |-> <<>>]

\* `node.last_seen < stale_threshold`, stale_threshold = now - timedelta(seconds=ttl)
IsStale(seen, now, ttl) == seen < now - ttl

\* `node.status = NodeStatus.OFFLINE` / `agent.status = AgentStatus.OFFLINE`
MarkOffline(rec) == [rec EXCEPT !.status = "offline"]

\* a sweep that drops the stale nodes instead of marking them
SweepNodes_Delete(ns, now) ==
    [n \in NodeIds |->
        IF ns[n] # NoNode /\ IsStale(ns[n].last_seen, now, NodeTTL)
        THEN NoNode
        ELSE ns[n]]

\* the loop over list(self.nodes.items())
SweepNodes(ns, now) ==
    [n \in NodeIds |->
        IF ns[n] # NoNode /\ IsStale(ns[n].last_seen, now, NodeTTL)
        THEN MarkOffline(ns[n])
        ELSE ns[n]]

\* list(self.agents.items()): the agents present, in the dict's order
RECURSIVE AgentItems(_, _)
AgentItems(ags, order) ==
    IF order = <<>> THEN <<>>
    ELSE IF ags[Head(order)] = NoAgent
         THEN AgentItems(ags, Tail(order))
         ELSE <<Head(order)>> \o AgentItems(ags, Tail(order))

\* a loop that marks the agent it comes to without looking at its heartbeat
SweepAgents_All(ags, todo, now) ==
    IF todo = <<>>
    THEN [agents |-> ags, next |-> NoSweep]
    ELSE [agents |-> [ags EXCEPT ![Head(todo)] = MarkOffline(@)],
          next   |-> [pc |-> "broadcasting", now |-> now,
                      cur |-> Head(todo), todo |-> Tail(todo)]]

\* the loop over the agents, from the agent `todo` starts with up to the
\* next `await self.ws_manager.broadcast(...)` or to the end of the loop
RECURSIVE SweepAgents(_, _, _)
SweepAgents(ags, todo, now) ==
    IF todo = <<>>
    THEN [agents |-> ags, next |-> NoSweep]
    ELSE IF IsStale(ags[Head(todo)].last_heartbeat, now, AgentTTL)
         THEN [agents |-> [ags EXCEPT ![Head(todo)] = MarkOffline(@)],
               next   |-> [pc |-> "broadcasting", now |-> now,
                           cur |-> Head(todo), todo |-> Tail(todo)]]
         ELSE SweepAgents(ags, Tail(todo), now)

\* DEparrowBootstrapServer.register_node, after its `await request.json()`
register_node(n) ==
    /\ nodes' = [nodes EXCEPT ![n] = [status |-> "online", last_seen |-> wall]]
    /\ nodes' # nodes
    /\ UNCHANGED <<agents, wall, reaper, terminated>>
    /\ UNCHANGED <<ledgerVars, rateVars, wsVars>>

\* DEparrowBootstrapServer.node_heartbeat of a registered node
node_heartbeat(n) ==
    /\ nodes[n] # NoNode
    /\ nodes' = [nodes EXCEPT ![n].last_seen = wall]
    /\ UNCHANGED <<agents, wall, reaper, terminated>>
    /\ UNCHANGED <<ledgerVars, rateVars, wsVars>>

\* DEparrowBootstrapServer.register_agent of an agent id not registered yet; node_id
\* is "virtual" or the id of a node, which is created when it is unknown
register_agent(a, node_id) ==
    /\ agents[a] = NoAgent
    /\ nodes' = IF node_id \in NodeIds /\ nodes[node_id] = NoNode
                THEN [nodes EXCEPT ![node_id] = [status |-> "online", last_seen |-> wall]]
                ELSE nodes
    /\ agents' = [agents EXCEPT ![a] = [status |-> "initializing", last_heartbeat |-> wall]]
    /\ UNCHANGED <<wall, reaper, terminated>>
    /\ UNCHANGED <<ledgerVars, rateVars, wsVars>>

\* DEparrowBootstrapServer.agent_heartbeat; st is the body's 'status', or
\* "absent" when the body has none
agent_heartbeat(a, st) ==
    /\ agents[a] # NoAgent
    /\ agents' = [agents EXCEPT ![a] =
                    [status         |-> IF st = "absent" THEN @.status ELSE st,
                     last_heartbeat |-> wall]]
    /\ terminated' = IF st = "absent" THEN terminated ELSE terminated \ {a}
    /\ UNCHANGED <<nodes, wall, reaper>>
    /\ UNCHANGED <<ledgerVars, rateVars, wsVars>>

\* the agent_terminate tool with confirm=true, up to its broadcast of
\* 'agent_terminated', which touches the WebSocketManager only
agent_terminate(a) ==
    /\ agents[a] # NoAgent
    /\ a \notin terminated
    /\ agents' = [agents EXCEPT ![a] = MarkOffline(@)]
    /\ terminated' = terminated \cup {a}
    /\ UNCHANGED <<nodes, wall, reaper>>
    /\ UNCHANGED <<ledgerVars, rateVars, wsVars>>

\* time passes
Advance ==
    /\ wall < MaxWall
    /\ wall' = wall + 1
    /\ UNCHANGED <<nodes, agents, reaper, terminated>>
    /\ UNCHANGED <<ledgerVars, rateVars, wsVars>>

\* _cleanup_task wakes from asyncio.sleep(60): the loop over the nodes, then
\* the loop over the agents up to the first broadcast
sweep_start ==
    /\ reaper.pc = "sleeping"
    /\ LET swept == SweepAgents(agents, AgentItems(agents, AgentOrder), wall)
       IN  /\ nodes' = SweepNodes(nodes, wall)
           /\ agents' = swept.agents
           /\ reaper' = swept.next
    /\ UNCHANGED <<wall, terminated>>
    /\ UNCHANGED <<ledgerVars, rateVars, wsVars>>

\* the broadcast of 'agent_offline' is over.  When it returned, the loop
\* goes on with the next agent; when it raised, `except Exception` logs the
\* error and the task goes to sleep
sweep_resume(outcome) ==
    /\ reaper.pc = "broadcasting"
    /\ LET swept == SweepAgents(agents, reaper.todo, reaper.now)
       IN  IF outcome = "raised"
           THEN /\ reaper' = NoSweep
                /\ agents' = agents
           ELSE /\ reaper' = swept.next
                /\ agents' = swept.agents
    /\ UNCHANGED <<nodes, wall, terminated>>
    /\ UNCHANGED <<ledgerVars, rateVars, wsVars>>

\* the broadcasts a step of the reaper starts: `prev` and `next` are the
\* task's positions before and after it.  The only broadcast call of
\* _cleanup_task is the one of the agents' loop
OfflineEvents(prev, next) ==
    IF next.pc = "broadcasting" /\ next # prev
    THEN {[channel |-> "agents", type |-> "agent_offline", id |-> next.cur]}
    ELSE {}

\* DEparrowBootstrapServer.__init__ and _initialize_sample_data: no node,
\* the sample agent, idle; start() creates the _cleanup_task task
ReaperStart ==
    /\ nodes = [n \in NodeIds |-> NoNode]
    /\ agents = [a \in AgentIds |->
                    IF a = "agent-demo-1"
                    THEN [status |-> "idle", last_heartbeat |-> 0]
                    ELSE NoAgent]
    /\ wall = 0
    /\ reaper = NoSweep
    /\ terminated = {}

----------------------------------------------------------------------------
(* Specifications: one per component, the other components standing still *)

LedgerInit == LedgerStart /\ RateStart /\ WsStart /\ ReaperStart

LedgerNext ==
    \E h \in Handlers :
        \/ ReceiveSubmit(h)
        \/ ReceiveCancel(h)
        \/ ReceiveTransfer(h)
        \/ ReceiveToolTransfer(h)
        \/ submit_job(h)
        \/ cancel_job(h)
        \/ transfer_credits(h)
        \/ tool_credit_transfer(h)

SpecLedger == LedgerInit /\ [][LedgerNext]_vars

\* the submissions and cancellations of one job
JobsNext ==
    \E h \in Handlers :
        \/ JobRequest(h)
        \/ submit_job(h)
        \/ cancel_job(h)

SpecJobs == LedgerInit /\ [][JobsNext]_vars

\* the balance queries next to the transfers
BalanceNext ==
    \/ \E h \in Handlers : ReceiveTransfer(h)
    \/ \E h \in Handlers : transfer_credits(h)
    \/ \E u \in UserIds : get_credit_balance(u)
    \/ \E u \in UserIds : tool_credit_balance(u)

SpecBalance == LedgerInit /\ [][BalanceNext]_vars

RateInit == RateStart /\ LedgerStart /\ WsStart /\ ReaperStart

RateNext ==
    \/ \E c \in Callers : CallCheck(c)
    \/ \E c \in Callers : AcquireLock(c)
    \/ \E c \in Callers : CleanAndCount(c)
    \/ \E c \in Callers : DecideAndReturn(c)
    \/ Tick

SpecRate == RateInit /\ [][RateNext]_vars

WsInit == WsStart /\ LedgerStart /\ RateStart /\ ReaperStart

WsNext ==
    \/ \E c \in Clients : connect(c)
    \/ \E c \in Clients : disconnect(c)
    \/ \E c \in Clients, ch \in Channels : subscribe(c, ch)
    \/ \E c \in Clients, ch \in Channels : unsubscribe(c, ch)
    \/ \E a \in Agents, c \in Clients : register_agent_ws(a, c)
    \/ \E c \in Clients : PeerGone(c)
    \/ \E b \in Broadcasters, ch \in Channels : broadcast_call(b, ch)
    \/ \E b \in Broadcasters : broadcast_resume(b)

SpecWs == WsInit /\ [][WsNext]_vars

\* the registry methods of the WebSocketManager under any caller
RegistryNext ==
    \/ \E c \in Clients : connect(c)
    \/ \E c \in Clients : disconnect(c)
    \/ \E c \in Clients, ch \in Channels : subscribe(c, ch)
    \/ \E c \in Clients, ch \in Channels : subscribe_unconnected(c, ch)
    \/ \E c \in Clients, ch \in Channels : unsubscribe(c, ch)
    \/ \E a \in Agents, c \in Clients : register_agent_ws(a, c)

SpecRegistry == WsInit /\ [][RegistryNext]_vars

\* the agent routes of the WebSocketManager and send_to_agent
AgentNext ==
    \/ \E c \in Clients : connect(c)
    \/ \E c \in Clients : disconnect(c)
    \/ \E a \in Agents, c \in Clients : register_agent_ws(a, c)
    \/ \E c \in Clients : PeerGone(c)
    \/ \E a \in Agents : send_to_agent_call(a)
    \/ send_to_agent_resume

SpecAgent == WsInit /\ [][AgentNext]_vars

\* the three sending methods side by side, on one channel
LockNext ==
    \/ \E c \in Clients : connect(c)
    \/ \E c \in Clients : disconnect(c)
    \/ \E c \in Clients : subscribe(c, "jobs")
    \/ \E a \in Agents, c \in Clients : register_agent_ws(a, c)
    \/ \E c \in Clients : PeerGone(c)
    \/ \E b \in Broadcasters : broadcast_call(b, "jobs")
    \/ \E b \in Broadcasters : broadcast_resume(b)
    \/ \E c \in Clients : send_to_client_call(c)
    \/ send_to_client_resume
    \/ \E a \in Agents : send_to_agent_call(a)
    \/ send_to_agent_resume

SpecLock == WsInit /\ [][LockNext]_vars

\* the WebSocketManager with the direct sends of the sessions
SendNext ==
    \/ WsNext
    \/ \E c \in Clients : send_to_client_call(c)
    \/ send_to_client_resume

SpecSend == WsInit /\ [][SendNext]_vars

\* the liveness records under the reaper, the heartbeats and the clock
ReaperInit == ReaperStart /\ LedgerStart /\ RateStart /\ WsStart

HeartbeatStatuses == {"absent", "idle"}

ReaperNext ==
    \/ \E n \in NodeIds : register_node(n)
    \/ \E n \in NodeIds : node_heartbeat(n)
    \/ \E a \in AgentIds, node_id \in NodeIds \cup {"virtual"} : register_agent(a, node_id)
    \/ \E a \in AgentIds, st \in HeartbeatStatuses : agent_heartbeat(a, st)
    \/ \E a \in AgentIds : agent_terminate(a)
    \/ Advance
    \/ sweep_start
    \/ \E outcome \in {"returned", "raised"} : sweep_resume(outcome)

SpecReaper == ReaperInit /\ [][ReaperNext]_vars

\* the reaper's task is scheduled again and again, and a broadcast it waits
\* for comes to an end
SpecReaperLive ==
    /\ SpecReaper
    /\ WF_vars(sweep_start)
    /\ WF_vars(\E outcome \in {"returned", "raised"} : sweep_resume(outcome))


----------------------------------------------------------------------------
(* Claims about the credit ledger *)

\* handler task h runs the body of an `op` request in this step
BodyStep(h, op) == Pending(h) /\ handler[h].op = op /\ handler'[h] = Idle

\* C1: in every reachable state every account's credit balance is >= 0.
C1_NonNegativeBalance == \A u \in DOMAIN users : users[u] >= 0

\* C2: at every quiescent point the sum of all balances equals the initial
\* sum plus the credits reported successful minus the debits reported
\* successful, and a transfer by itself never changes the sum.
C2_Conservation ==
    /\ [](Quiescent => TotalCredits(users) = initial_sum + total_credited - total_debited)
    /\ [][\A h \in Handlers :
            BodyStep(h, "transfer_credits") => TotalCredits(users') = TotalCredits(users)]_vars

\* transfer(from, to, amount) applied on its own to balances u
SequentialTransfer(u, a) ==
    IF a.amount > 0 /\ a.user \in DOMAIN u /\ a.to \in DOMAIN u /\ u[a.user] >= a.amount
    THEN IF a.user = a.to THEN u
         ELSE [u EXCEPT ![a.user] = @ - a.amount, ![a.to] = @ + a.amount]
    ELSE u

OppositeTransfers(a, b) == a.user = b.to /\ a.to = b.user /\ a.user # a.to

\* C3: two transfers pending together in opposite directions between the same
\* two accounts both run to completion (a pending handler can always take its
\* step), and once both have returned the balances are those of applying the
\* two transfers one after the other in one of the two orders.
C3_OppositeTransfersSerialize ==
    /\ \A h \in Handlers :
          Pending(h) /\ handler[h].op = "transfer_credits" => ENABLED transfer_credits(h)
    /\ (concStart # <<>> /\ Quiescent /\ OppositeTransfers(concStart.first, concStart.second))
          => users \in
               { SequentialTransfer(SequentialTransfer(concStart.before, concStart.first),
                                    concStart.second),
                 SequentialTransfer(SequentialTransfer(concStart.before, concStart.second),
                                    concStart.first) }

\* both opposite transfers have run, and at least one has moved credits
C3_Witness ==
    /\ concStart # <<>> /\ Quiescent
    /\ OppositeTransfers(concStart.first, concStart.second)
    /\ concStart.first.amount > 0 /\ concStart.second.amount > 0
    /\ users # concStart.before

C5_SuccessfulTransferMoves ==
    [][\A h \in Handlers :
         LET a == handler[h].args
         IN  (/\ BodyStep(h, "transfer_credits") \/ BodyStep(h, "tool_credit_transfer")
              /\ last'.outcome \in {"transferred", "success"}
              /\ a.user \in DOMAIN users /\ a.to \in DOMAIN users)
             => /\ users'[a.user] = users[a.user] - a.amount
                /\ users'[a.to] = users[a.to] + a.amount]_vars

----------------------------------------------------------------------------
(* Claims about the rate limiter *)

\* caller c leaves check_rate_limit in this step
ReturnStep(c) == caller[c].pc = "counted" /\ caller'[c].pc = "idle"

RECURSIVE AdmittedBetween(_, _, _)
\* number of checks on key k admitted with a timestamp in (lo, hi]
AdmittedBetween(k, lo, hi) ==
    IF hi <= lo \/ hi < 0 THEN 0
    ELSE (IF hi \in Times THEN admitted[k][hi] ELSE 0) + AdmittedBetween(k, lo, hi - 1)

\* C7: a check at time now that finds m < MaxRequests admitted requests in
\* (now - WindowSeconds, now] is admitted with remaining MaxRequests - m - 1
\* (so from an empty window the first n checks get n-1, ..., 0), a check
\* that finds MaxRequests of them is denied with remaining 0, and a check made
\* once the window has elapsed since the admitted requests is admitted again.
C7_SlidingWindow ==
    [][\A c \in Callers :
         ReturnStep(c) =>
            LET k == caller[c].key
                m == AdmittedBetween(k, caller[c].now - WindowSeconds, caller[c].now)
            IN  rl_last' = [key |-> k,
                            allowed |-> m < MaxRequests,
                            remaining |-> IF m < MaxRequests
                                          THEN MaxRequests - m - 1 ELSE 0]]_vars

\* a check was denied and, the window having elapsed, a later one finds the
\* window empty again
C7_Witness ==
    \E k \in Keys :
        /\ was_denied[k]
        /\ rl_last = [key |-> k, allowed |-> TRUE, remaining |-> MaxRequests - 1]

\* C8: for every key and every time t, the number of admitted checks with
\* a timestamp in (t - WindowSeconds, t] is at most MaxRequests, whatever
\* the interleaving of the callers.
C8_WindowNeverOverfull ==
    \A k \in Keys : \A t \in Times :
        AdmittedBetween(k, t - WindowSeconds, t) <= MaxRequests

\* one caller is about to take the last free slot while another waits for
\* the lock on the same key
C8_Witness ==
    \E c, d \in Callers :
        /\ c # d
        /\ caller[c].pc = "counted" /\ caller[c].current_count = MaxRequests - 1
        /\ caller[d].pc = "call" /\ caller[d].key = caller[c].key

\* C9: a denied check returns (False, 0) and leaves every stored list as
\* it was, and no key ever stores more than MaxRequests timestamps.
C9_DeniedNotRecorded ==
    /\ [](\A k \in Keys : Len(requests[k]) <= MaxRequests)
    /\ [][\A c \in Callers :
            (ReturnStep(c) /\ ~rl_last'.allowed)
               => (requests' = requests /\ rl_last'.remaining = 0)]_vars

C9_Witness ==
    \E k \in Keys : was_denied[k] /\ rl_last.key = k /\ ~rl_last.allowed
                    /\ Len(requests[k]) = MaxRequests

----------------------------------------------------------------------------
(* Claims about the WebSocketManager *)

\* the set of the elements of a sequence
Range(q) == {q[i] : i \in 1..Len(q)}

NoDuplicates(q) == \A i, j \in 1..Len(q) : q[i] = q[j] => i = j

\* C10: the connections one broadcast call attempts a send to are exactly
\* those subscribed to the channel (and registered) when the call was issued:
\* never another one, never one twice, and all of them once the call is over,
\* whatever subscribe, unsubscribe, connect or disconnect calls run while the
\* broadcast is suspended in a send.
C10_BroadcastSnapshot ==
    \A b \in Broadcasters :
        /\ Range(bcast[b].attempted) \subseteq bcast[b].snapshot
        /\ NoDuplicates(bcast[b].attempted)
        /\ bcast[b].pc \in {"done", "raised"}
              => Range(bcast[b].attempted) = bcast[b].snapshot

\* C11: broadcast never fails from its caller's point of view: whatever sends
\* fail and whatever connect, disconnect, subscribe and unsubscribe calls run
\* while it is suspended, no broadcast call ends by raising to its caller.
C11_BroadcastNeverRaises ==
    \A b \in Broadcasters : bcast[b].pc # "raised"

\* the connections on which a send of broadcast call b has failed, when the
\* send under way is about to come back
FailedSends(b) ==
    Range(bcast[b].disconnected)
        \cup (IF bcast[b].cur \in broken THEN {bcast[b].cur} ELSE {})

\* the step that ends broadcast call b
BroadcastEnds(b) == bcast[b].pc = "sending" /\ bcast'[b].pc \in {"done", "raised"}

\* C12: a send that fails during a broadcast does not keep the broadcast from
\* the other subscribers: when a broadcast in which a send failed ends, every
\* connection that was subscribed to the channel when it was called has had
\* its send attempt.
C12_FailureDoesNotBlockOthers ==
    [][\A b \in Broadcasters :
          (BroadcastEnds(b) /\ FailedSends(b) # {})
              => bcast'[b].snapshot \subseteq Range(bcast'[b].attempted)]_vars

\* C13: every connection whose send failed during a broadcast has been
\* disconnected when that broadcast is over: at the step that ends the call it
\* is no longer registered, has no subscription entry and is in no agent's
\* route set.
C13_FailedSendDisconnects ==
    [][\A b \in Broadcasters :
          BroadcastEnds(b)
              => \A c \in FailedSends(b) :
                    /\ c \notin connections'
                    /\ IndexOf(subscriptions', c) = 0
                    /\ \A a \in DOMAIN agent_connections' : c \notin agent_connections'[a]]_vars

\* C14: the messages handed to one connection go out in the order in which
\* their broadcast / send calls were issued, also when calls are under way
\* together: a broadcast never sends to a connection to which a call issued
\* after it has already sent.
C14_FifoPerConnection ==
    \A b \in Broadcasters :
        \A i \in 1..Len(bcast[b].attempted) :
            bcast[b].attempted[i] \notin bcast[b].overtaken

\* C15: no replay: when a connection subscribes to a channel whose broadcast
\* call is over, that broadcast sends nothing to it: the step that subscribes
\* it leaves the finished call and the sends it made as they were.
C15_NoReplay ==
    [][\A b \in Broadcasters, c \in Clients :
          (/\ bcast[b].pc \in {"done", "raised"}
           /\ bcast[b].channel \notin ChannelsOf(subscriptions, c)
           /\ bcast[b].channel \in ChannelsOf(subscriptions', c))
              => bcast'[b] = bcast[b]]_vars

\* a broadcast that found nobody to send to is over (it ran in one stretch),
\* and a registered connection is subscribed to its channel now: it
\* subscribed after the call was over, and was sent nothing
C15_Witness ==
    \E b \in Broadcasters, c \in connections :
        /\ bcast[b].pc = "done"
        /\ bcast[b].snapshot = {}
        /\ bcast[b].attempted = <<>>
        /\ bcast[b].channel \in ChannelsOf(subscriptions, c)

\* C16: a broadcast issued after disconnect(c) has completed, on a channel on
\* which c was sent the broadcast before, attempts no send to c and raises no
\* error.
C16_NoSendAfterDisconnect ==
    \A b \in Broadcasters :
        bcast[b].gone # {}
            => /\ \A i \in 1..Len(bcast[b].attempted) : bcast[b].attempted[i] \notin bcast[b].gone
               /\ bcast[b].pc # "raised"

\* C17: when disconnect(c) completes, c is not in the connection map, has no
\* subscription entry and is in no agent's route set.
C17_DisconnectRemovesAll ==
    [][\A c \in Clients :
          disconnect(c)
              => /\ c \notin connections'
                 /\ IndexOf(subscriptions', c) = 0
                 /\ \A a \in DOMAIN agent_connections' : c \notin agent_connections'[a]]_vars

\* the only connection ever opened was sent a broadcast (it was registered and
\* subscribed) and had an agent route; its socket never failed, so it was
\* disconnect(c) that removed it from all three
C17_Witness ==
    \E c \in Clients :
        /\ fresh = Clients \ {c}
        /\ c \notin broken
        /\ c \notin connections
        /\ IndexOf(subscriptions, c) = 0
        /\ \E a \in DOMAIN agent_connections : agent_connections[a] = {}
        /\ \E b \in Broadcasters : bcast[b].pc = "done" /\ bcast[b].attempted = <<c>>

\* C18: disconnect(c) for an id that is not registered (a second disconnect
\* of an id, from the session-close path after the failed-send path) leaves
\* the connections, the subscriptions and the agent routes as they were.
C18_DisconnectUnknownIsNoOp ==
    [][\A c \in Clients :
          (c \notin connections /\ disconnect(c))
              => UNCHANGED <<connections, subscriptions, agent_connections>>]_vars

\* C19: subscribe(c, ch) and unsubscribe(c, ch) for an id c that is not
\* registered are dropped: they leave the connections, the subscriptions and
\* the agent routes as they were.
C19_UnknownIdIsDropped ==
    [][\A c \in Clients, ch \in Channels :
          (c \notin connections /\ (subscribe(c, ch) \/ unsubscribe(c, ch)))
              => UNCHANGED <<connections, subscriptions, agent_connections>>]_vars

\* the subscriber set of a channel: the ids whose subscription set holds it
SubscribedTo(entries, ch) == {c \in Clients : ch \in ChannelsOf(entries, c)}

\* C20: subscription is idempotent set membership.  From every registry the
\* server reaches, subscribing a pair twice gives the subscriber sets that
\* subscribing it once gives, and unsubscribing a pair that is not subscribed
\* leaves every subscriber set as it is; and a subscribe call on a subscribed
\* pair, or an unsubscribe call on a pair not subscribed, changes no subscriber
\* set.
C20_SubscriptionIdempotent ==
    /\ [](\A c \in Clients, ch \in Channels, x \in Channels :
            LET once  == SubscribeEntries(subscriptions, c, ch)
                twice == SubscribeEntries(once, c, ch)
            IN  /\ SubscribedTo(twice, x) = SubscribedTo(once, x)
                /\ c \in SubscribedTo(once, ch)
                /\ ch \notin ChannelsOf(subscriptions, c)
                     => SubscribedTo(UnsubscribeEntries(subscriptions, c, ch), x)
                          = SubscribedTo(subscriptions, x))
    /\ [][\A c \in Clients, ch \in Channels, x \in Channels :
            (\/ subscribe(c, ch) /\ ch \in ChannelsOf(subscriptions, c)
             \/ unsubscribe(c, ch) /\ ch \notin ChannelsOf(subscriptions, c))
                => SubscribedTo(subscriptions', x) = SubscribedTo(subscriptions, x)]_vars

\* one session is subscribed to a channel and not to the other (a second
\* subscribe, and an unsubscribe of the other channel, are the repeated
\* calls), and another session has no subscription entry at all (its
\* unsubscribe creates an empty one)
C20_Witness ==
    \E c \in sessions, d \in sessions :
        /\ c # d
        /\ \E ch \in Channels : ChannelsOf(subscriptions, c) = {ch}
        /\ IndexOf(subscriptions, d) = 0

C22_SendToAgentResult ==
    agent_send.result # "none"
        => (agent_send.result = "true" <=> agent_send.routed # {})

\* C23: send_to_client reports success only when its send succeeded; when the
\* send fails it reports failure and the connection is unregistered when the
\* call returns; for an id that is not registered it reports failure and
\* changes nothing in the registry.
C23_SendToClientResult ==
    [][/\ send_to_client_resume
          => /\ direct'.result = "true" <=> direct.cid \notin broken
             /\ direct.cid \in broken
                  => /\ direct'.result = "false"
                     /\ direct.cid \notin connections'
                     /\ IndexOf(subscriptions', direct.cid) = 0
                     /\ \A a \in DOMAIN agent_connections' :
                           direct.cid \notin agent_connections'[a]
       /\ \A c \in Clients :
            (send_to_client_call(c) /\ c \notin connections)
                => /\ direct'.result = "false"
                   /\ direct'.pc = "idle"
                   /\ UNCHANGED <<connections, subscriptions, agent_connections>>]_vars

\* no broadcast was ever called and the session of c is still running, so it
\* is the failed send of send_to_client that unregistered c, and the call
\* returned False
C23_Witness ==
    \E c \in sessions :
        /\ c \in broken
        /\ c \notin connections
        /\ direct.pc = "idle"
        /\ direct.result = "false"
        /\ \A b \in Broadcasters : bcast[b] = NoBroadcast

----------------------------------------------------------------------------
(* Claims about the liveness records and the reaper *)

ReaperStep == sweep_start \/ \E outcome \in {"returned", "raised"} : sweep_resume(outcome)

MovedOffline(old, new) == old.status \notin {"absent", "offline"} /\ new.status = "offline"

\* C24: each time a sweep of the reaper moves a node or an agent from a
\* status other than offline to offline, the sweep emits the record's
\* `<kind>_offline` event on the channel of its kind
C24_MarkIsAnnounced ==
    [][ReaperStep =>
        /\ \A n \in NodeIds :
              MovedOffline(nodes[n], nodes'[n]) =>
                 [channel |-> "nodes", type |-> "node_offline", id |-> n]
                    \in OfflineEvents(reaper, reaper')
        /\ \A a \in AgentIds :
              MovedOffline(agents[a], agents'[a]) =>
                 [channel |-> "agents", type |-> "agent_offline", id |-> a]
                    \in OfflineEvents(reaper, reaper')]_vars

\* C25: the reaper emits no offline event for a record whose status is
\* offline already
C25_NoEventWhenOffline ==
    [][ReaperStep =>
        \A e \in OfflineEvents(reaper, reaper') : agents[e.id].status # "offline"]_vars

\* C26: a heartbeat received for a record whose status is offline resets its
\* last-seen time and brings the record back from offline
C26_HeartbeatRevives ==
    [][/\ \A n \in NodeIds :
             node_heartbeat(n) /\ nodes[n].status = "offline" =>
                nodes'[n] = [status |-> "online", last_seen |-> wall]
       /\ \A a \in AgentIds, st \in HeartbeatStatuses :
             agent_heartbeat(a, st) /\ agents[a].status = "offline" =>
                /\ agents'[a].status # "offline"
                /\ agents'[a].last_heartbeat = wall]_vars

\* the staleness the claim speaks of: now - last_seen >= TTL
AgedOut(seen, now, ttl) == now - seen >= ttl

\* the agents of `todo` the step of the reaper has examined against `now`:
\* each is offline afterwards only if it had aged out or was terminated
ExaminedAgentsJustified(todo, now) ==
    \A a \in Range(todo) \ Range(reaper'.todo) :
        agents'[a].status = "offline" =>
            \/ AgedOut(agents[a].last_heartbeat, now, AgentTTL)
            \/ a \in terminated

\* C27: a record that a sweep has just examined is offline only if it had
\* aged out at that sweep or an explicit action set it offline
C27_OfflineOnlyIfStale ==
    [][/\ sweep_start =>
             /\ \A n \in NodeIds :
                   nodes'[n].status = "offline" =>
                      AgedOut(nodes[n].last_seen, wall, NodeTTL)
             /\ ExaminedAgentsJustified(AgentItems(agents, AgentOrder), wall)
       /\ sweep_resume("returned") =>
             ExaminedAgentsJustified(reaper.todo, reaper.now)]_vars

\* C28: a step of the reaper leaves a record as it is or moves it from a
\* status other than offline to offline, its last-seen time unchanged; it
\* never deletes a record
C28_ReaperOnlyMarksOffline ==
    [][ReaperStep =>
        /\ \A n \in NodeIds :
              \/ nodes'[n] = nodes[n]
              \/ /\ MovedOffline(nodes[n], nodes'[n])
                 /\ nodes'[n] = MarkOffline(nodes[n])
        /\ \A a \in AgentIds :
              \/ agents'[a] = agents[a]
              \/ /\ MovedOffline(agents[a], agents'[a])
                 /\ agents'[a] = MarkOffline(agents[a])]_vars

\* the reaper has marked a node and an agent, and both are still there
C28_Witness ==
    /\ \E n \in NodeIds : nodes[n].status = "offline" /\ nodes[n].last_seen > 0
    /\ \E a \in AgentIds : agents[a].status = "offline" /\ a \notin terminated

\* C29: a sweep goes back to sleep only when no stale record is left among
\* those it still had to examine, also when a broadcast has raised
C29_FailureDoesNotAbortSweep ==
    [][reaper.pc = "broadcasting" /\ reaper'.pc = "sleeping" =>
        \A a \in Range(reaper.todo) :
            ~IsStale(agents[a].last_heartbeat, reaper.now, AgentTTL)]_vars

NodeOverdue(n) ==
    /\ nodes[n].status \notin {"absent", "offline"}
    /\ IsStale(nodes[n].last_seen, wall, NodeTTL)

AgentOverdue(a) ==
    /\ agents[a].status \notin {"absent", "offline"}
    /\ IsStale(agents[a].last_heartbeat, wall, AgentTTL)

\* C30: whatever fails inside the sweeps, a record that is stale and not
\* offline is eventually marked offline, unless it stops being stale
C30_StaleEventuallyOffline ==
    /\ \A n \in NodeIds : NodeOverdue(n) ~> ~NodeOverdue(n)
    /\ \A a \in AgentIds : AgentOverdue(a) ~> ~AgentOverdue(a)

----------------------------------------------------------------------------
(* Further claims: boundaries, preconditions and clean-up *)

\* the agents of `todo` the step of the reaper has examined against `now`:
\* those not offline before are marked when aged out and unchanged otherwise
ExaminedAgentsSwept(todo, now) ==
    \A a \in Range(todo) \ Range(reaper'.todo) :
        agents[a].status # "offline" =>
            IF AgedOut(agents[a].last_heartbeat, now, AgentTTL)
            THEN agents'[a].status = "offline"
            ELSE agents'[a] = agents[a]

\* C32: a sweep marks offline every record it examines that is not offline
\* and has now - last_seen >= TTL of its kind, the age TTL included, and
\* leaves unchanged every record younger than TTL
C32_MarksAtBoundary ==
    [][/\ sweep_start =>
             /\ \A n \in NodeIds :
                   nodes[n].status \notin {"absent", "offline"} =>
                      IF AgedOut(nodes[n].last_seen, wall, NodeTTL)
                      THEN nodes'[n].status = "offline"
                      ELSE nodes'[n] = nodes[n]
             /\ ExaminedAgentsSwept(AgentItems(agents, AgentOrder), wall)
       /\ sweep_resume("returned") =>
             ExaminedAgentsSwept(reaper.todo, reaper.now)]_vars

Ascending(q) == \A i, j \in 1..Len(q) : i < j => q[i] <= q[j]

\* C33: a check on a key counts the recorded timestamps strictly younger
\* than the window and drops the others, the one exactly windowSeconds old
\* included; when the check returns, the key's list is ascending and holds
\* only timestamps greater than now - windowSeconds
C33_WindowPruned ==
    [][\A c \in Callers :
          /\ CleanAndCount(c) =>
                LET before == requests[caller[c].key]
                    young  == {i \in 1..Len(before) : before[i] > clock - WindowSeconds}
                IN  /\ caller'[c].current_count = Cardinality(young)
                    /\ \A ts \in Range(requests'[caller[c].key]) :
                          ts > clock - WindowSeconds
          /\ DecideAndReturn(c) =>
                /\ Ascending(requests'[caller[c].key])
                /\ \A ts \in Range(requests'[caller[c].key]) :
                      ts > caller[c].now - WindowSeconds]_vars

\* a check has just dropped a request recorded exactly windowSeconds earlier
C33_Witness ==
    \E c \in Callers :
        /\ caller[c].pc = "counted"
        /\ caller[c].now >= WindowSeconds
        /\ admitted[caller[c].key][caller[c].now - WindowSeconds] > 0
        /\ (caller[c].now - WindowSeconds) \notin Range(requests[caller[c].key])

\* C34: a transfer with amount <= 0 or with the sender as the recipient is
\* answered with an error and changes no balance
C34_TransferPreconditions ==
    [][\A h \in Handlers :
          (/\ transfer_credits(h)
           /\ handler[h].args.amount <= 0 \/ handler[h].args.user = handler[h].args.to)
          => /\ last'.outcome \in {"invalid_transfer", "user_not_found", "insufficient_credits"}
             /\ users' = users]_vars

\* C37: a job submission answered with an error leaves every balance as it was
C37_FailedSubmitKeepsBalance ==
    [][\A h \in Handlers :
          submit_job(h) /\ last'.outcome # "accepted" => users' = users]_vars

\* C40: the reaper moves a record to offline only if the record's last-seen
\* time, read at the moment it is marked, is not within TTL of the time the
\* sweep started at; a heartbeat received during the sweep counts
C40_HeartbeatDuringSweepHonoured ==
    [][/\ sweep_start =>
             /\ \A n \in NodeIds :
                   MovedOffline(nodes[n], nodes'[n]) =>
                      AgedOut(nodes[n].last_seen, wall, NodeTTL)
             /\ \A a \in AgentIds :
                   MovedOffline(agents[a], agents'[a]) =>
                      AgedOut(agents[a].last_heartbeat, wall, AgentTTL)
       /\ (\E outcome \in {"returned", "raised"} : sweep_resume(outcome)) =>
             /\ nodes' = nodes
             /\ \A a \in AgentIds :
                   MovedOffline(agents[a], agents'[a]) =>
                      AgedOut(agents[a].last_heartbeat, reaper.now, AgentTTL)]_vars

\* the reaper is suspended in a broadcast, and an agent it has still to
\* examine, not offline, has sent a heartbeat since the sweep started
C40_Witness ==
    /\ reaper.pc = "broadcasting"
    /\ \E a \in Range(reaper.todo) :
          /\ agents[a].status # "offline"
          /\ agents[a].last_heartbeat > reaper.now

\* C39: a client id whose websocket_handler has returned is in none of the
\* connection map, the subscription map and the agent route sets
C39_SessionCleansUp ==
    \A c \in Clients \ (fresh \cup sessions) :
        /\ c \notin connections
        /\ IndexOf(subscriptions, c) = 0
        /\ \A a \in DOMAIN agent_connections : c \notin agent_connections[a]

\* a session whose peer had gone away has returned
C39_Witness ==
    \E c \in Clients \ (fresh \cup sessions) : c \in broken

\* C36: when send_to_agent returns right after a send that failed, the
\* connection of that send is no longer registered
C36_SendToAgentDisconnectsFailed ==
    [][(/\ send_to_agent_resume
        /\ agent_send'.pc = "idle"
        /\ agent_send.cur \in broken)
       => agent_send.cur \notin connections']_vars

\* C35: a balance query on either entry point answers without an error, with
\* the current balance of a known account and with 0 for an unknown one
C35_BalanceOfUnknownIsZero ==
    [][\A u \in UserIds :
          get_credit_balance(u) \/ tool_credit_balance(u) =>
             /\ last'.outcome \in {"ok", "success"}
             /\ last'.balance = IF u \in DOMAIN users THEN users[u] ELSE 0]_vars

\* C38: when one submission has been accepted, the refunds paid for its job
\* sum to at most the credit_cost debited for it
C38_RefundsBoundedByCost ==
    \A j \in JobIds :
        jobs[j] # NoJob /\ total_debited = jobs[j].credit_cost =>
           total_credited <= jobs[j].credit_cost

\* C31: while a send of broadcast, send_to_agent or send_to_client is in
\* progress nobody holds the registry lock, the sending call included
C31_NoSendUnderLock ==
    (\/ \E b \in Broadcasters : bcast[b].pc = "sending"
     \/ direct.pc = "sending"
     \/ agent_send.pc = "sending")
    => ws_lock = "free"

\* a broadcast, a send_to_client and a send_to_agent are sending at once
C31_Witness ==
    /\ \E b \in Broadcasters : bcast[b].pc = "sending"
    /\ direct.pc = "sending"
    /\ agent_send.pc = "sending"

====
